---------------------------- MODULE Spec2Model ----------------------------
(***************************************************************************)
(* Model of the image recolouring programs streamlit_app.py (the batch     *)
(* application) and bitmap_converter.py (the single-image application).    *)
(*                                                                         *)
(* Three specifications share the module:                                  *)
(*   SpecPixel  transform_color of both programs on one pixel              *)
(*   SpecImage  process_image of the batch program, one row per step       *)
(*   Spec       main() of the batch program: reruns of the script over a   *)
(*              session state, with the cache, the batch loop and the zip  *)
(***************************************************************************)
EXTENDS Integers, Sequences, FiniteSets, TLC

VARIABLES
    \* ---- SpecPixel: one call of transform_color
    pixel,              \* the pixel argument: <<v>> for an int, else a 3- or 4-tuple
    target_color,       \* the target_color argument (r, g, b)
    new_pixel,          \* the value returned
    variant,            \* "none", "batch" (streamlit_app) or "single" (bitmap_converter)
    \* ---- SpecImage: one call of process_image(img, target_color, progress_callback)
    img,                \* the image argument
    has_callback,       \* whether progress_callback was given
    y,                  \* the row the outer loop is at
    new_img,            \* the pixels written so far
    progress_calls,     \* the arguments progress_callback received, in order
    ret,                \* "running", "image" (new_img returned) or "None"
    \* ---- Spec: the batch application
    processed_images_state, \* st.session_state.processed_images
    current_color,          \* st.session_state.current_color
    color,                  \* the colour picker's value in this run
    uploaded_files,         \* the uploader's value in this run
    idx,                    \* 1-based index of the next file of the loop
    processed_images,       \* main's local list of (name, bytes, format)
    rendered,               \* what the grid shows: one record per download button
    zip_file,               \* the archive's members in the order written, or None
    errors,                 \* st.error messages of this run
    pc,                     \* "idle", "loop", "zip", "done" or "crashed"
    \* history, for stating the properties
    outcomes,               \* per file of this run: what the iteration did
    transforms,             \* process_image calls that returned an image, per key,
                            \* since the cache was last cleared
    cleared,                \* the keys this run's colour check evicted, if it cleared
    runs                    \* number of runs started

pixelVars == <<pixel, target_color, new_pixel, variant>>
imageVars == <<img, has_callback, y, new_img, progress_calls, ret>>
batchVars == <<processed_images_state, current_color, color, uploaded_files, idx,
               processed_images, rendered, zip_file, errors, pc,
               outcomes, transforms, cleared, runs>>
vars == <<pixelVars, imageVars, batchVars>>

None == "None"

\* None where an image is expected (Image.open raised, process_image returned None)
NoImage == [mode |-> None, width |-> 0, height |-> 0, loadable |-> FALSE, px |-> <<>>]

\* no colour change seen by this run
NotCleared == [changed |-> FALSE, evicted |-> {}]

\* no archive built
NoZip == [built |-> FALSE, members |-> <<>>]

(***************************************************************************)
(* Python floats.  brightness = (r + g + b) / (255 * 3) is the correctly   *)
(* rounded IEEE-754 double quotient of two ints, target * brightness the   *)
(* correctly rounded double product, and int() truncates towards zero.     *)
(* A double is [m |-> bits, e |-> exponent], standing for m * 2^e, with m  *)
(* a sequence of bits, most significant first (53 bits do not fit TLC's    *)
(* integers), <<>> being zero.                                             *)
(***************************************************************************)
MantissaBits == 53
LimbBits == 20

RECURSIVE Pow2Rec(_)
Pow2Rec(k) == IF k = 0 THEN 1 ELSE 2 * Pow2Rec(k - 1)
Pow2Table == [k \in 0..30 |-> Pow2Rec(k)]
Pow2(k) == Pow2Table[k]

\* The bits of n without leading zeros (n < 2^31).
BitLength(n) == IF n = 0 THEN 0 ELSE CHOOSE k \in 1..31 : Pow2(k - 1) <= n /\ n < 2 * Pow2(k - 1)
FixedBits(n, width) == [i \in 1..width |-> (n \div Pow2(width - i)) % 2]
NatToBits(n) == FixedBits(n, BitLength(n))

RECURSIVE BitsToNat(_)
BitsToNat(b) ==
    IF b = <<>> THEN 0
    ELSE 2 * BitsToNat(SubSeq(b, 1, Len(b) - 1)) + b[Len(b)]

StripZeros(b) ==
    IF \A i \in 1..Len(b) : b[i] = 0 THEN <<>>
    ELSE LET first == CHOOSE i \in 1..Len(b) : b[i] = 1 /\ \A k \in 1..(i - 1) : b[k] = 0
         IN  SubSeq(b, first, Len(b))

IncBits(b) ==
    IF \A i \in 1..Len(b) : b[i] = 1 THEN <<1>> \o [i \in 1..Len(b) |-> 0]
    ELSE LET last == CHOOSE i \in 1..Len(b) : b[i] = 0 /\ \A k \in (i + 1)..Len(b) : b[k] = 1
         IN  [i \in 1..Len(b) |-> IF i < last THEN b[i] ELSE IF i = last THEN 1 ELSE 0]

\* The least j >= 0 with n * 2^j >= den (n > 0).
RECURSIVE ScaleUp(_, _)
ScaleUp(n, den) == IF n >= den THEN 0 ELSE 1 + ScaleUp(2 * n, den)

\* Round-half-to-even of the integer b to its `keep` leading bits; the bits dropped
\* become the exponent.
RoundBits(b, keep) ==
    IF Len(b) <= keep THEN [m |-> b, e |-> 0]
    ELSE LET top    == SubSeq(b, 1, keep)
             rest   == SubSeq(b, keep + 1, Len(b))
             half   == rest[1] = 1
             sticky == \E i \in 2..Len(rest) : rest[i] = 1
             up     == half /\ (sticky \/ top[keep] = 1)
         IN  [m |-> IF up THEN IncBits(top) ELSE top, e |-> Len(b) - keep]

\* n / den for ints 0 <= n < 2 * den, 0 < den < 2^11 (Python's true division):
\* long division, LimbBits quotient bits at a time.
PyTrueDiv(n, den) ==
    IF n = 0 THEN [m |-> <<>>, e |-> 0]
    ELSE LET j    == ScaleUp(n, den)
             rem0 == n * Pow2(j) - den
             base == Pow2(LimbBits)
             last == MantissaBits - 1 - 2 * LimbBits
             rem1 == (rem0 * base) % den
             rem2 == (rem1 * base) % den
             r    == (rem2 * Pow2(last)) % den
             q    == <<1>> \o FixedBits((rem0 * base) \div den, LimbBits)
                          \o FixedBits((rem1 * base) \div den, LimbBits)
                          \o FixedBits((rem2 * Pow2(last)) \div den, last)
             up   == 2 * r > den \/ (2 * r = den /\ q[MantissaBits] = 1)
         IN  [m |-> IF up THEN IncBits(q) ELSE q, e |-> -(MantissaBits - 1) - j]

\* The bits of c * b for an int 0 <= c < 2^10 and at most 60 bits b: schoolbook
\* multiplication over limbs of LimbBits bits.
MulBits(b, c) ==
    LET n    == Len(b)
        pad  == [i \in 1..(3 * LimbBits - n) |-> 0] \o b
        limb(k) == BitsToNat(SubSeq(pad, (k - 1) * LimbBits + 1, k * LimbBits))
        base == Pow2(LimbBits)
        p0   == c * limb(3)
        p1   == c * limb(2) + p0 \div base
        p2   == c * limb(1) + p1 \div base
    IN  NatToBits(p2) \o FixedBits(p1 % base, LimbBits) \o FixedBits(p0 % base, LimbBits)

\* c * f for an int 0 <= c < 2^10 (exact as a double) and a double f >= 0.
PyMul(c, f) ==
    LET p == StripZeros(MulBits(f.m, c))
        r == RoundBits(p, MantissaBits)
    IN  [m |-> r.m, e |-> f.e + r.e]

\* The mutant of PyInt: round to the nearest integer instead of truncating.
PyIntRounding(f) ==
    LET n == Len(f.m) + f.e
    IN  IF f.e >= 0 THEN BitsToNat(f.m) * Pow2(f.e)
        ELSE IF n < 0 THEN 0
        ELSE BitsToNat(SubSeq(f.m, 1, n)) + f.m[n + 1]

\* int(f) for a double f >= 0: truncation towards zero.
PyInt(f) ==
    LET n == Len(f.m) + f.e
    IN  IF f.e >= 0 THEN BitsToNat(f.m) * Pow2(f.e)
        ELSE IF n <= 0 THEN 0
        ELSE BitsToNat(SubSeq(f.m, 1, n))

(***************************************************************************)
(* transform_color.  An int pixel (a grayscale value) is the 1-tuple <<v>>: *)
(* isinstance(pixel, int) is Len(pixel) = 1, and the int 255 returned for a *)
(* white grayscale pixel is <<255>>.                                        *)
(***************************************************************************)
Scaled(target, brightness) ==
    [c \in 1..3 |-> PyInt(PyMul(target[c], brightness))]

\* The mutant of TransformColor: the white checks left out.
TransformColorNoWhite(p, target) ==
    IF Len(p) = 1 THEN Scaled(target, PyTrueDiv(p[1], 255))
    ELSE LET s == Scaled(target, PyTrueDiv(p[1] + p[2] + p[3], 255 * 3))
         IN  IF Len(p) = 4 THEN s \o <<p[4]>> ELSE s

\* streamlit_app.py
TransformColor(p, target) ==
    IF Len(p) = 1 THEN
        IF p[1] = 255 THEN <<255>>
        ELSE Scaled(target, PyTrueDiv(p[1], 255))
    ELSE IF Len(p) = 4 THEN
        IF p[1] = 255 /\ p[2] = 255 /\ p[3] = 255 THEN <<255, 255, 255, p[4]>>
        ELSE Scaled(target, PyTrueDiv(p[1] + p[2] + p[3], 255 * 3)) \o <<p[4]>>
    ELSE
        IF p[1] = 255 /\ p[2] = 255 /\ p[3] = 255 THEN <<255, 255, 255>>
        ELSE Scaled(target, PyTrueDiv(p[1] + p[2] + p[3], 255 * 3))

\* bitmap_converter.py
TransformColorSingle(p, target) ==
    IF Len(p) = 1 THEN Scaled(target, PyTrueDiv(p[1], 255))
    ELSE LET s == Scaled(target, PyTrueDiv(p[1] + p[2] + p[3], 255 * 3))
         IN  IF Len(p) > 3 THEN s \o <<p[4]>> ELSE s

(***************************************************************************)
(* SpecPixel: one call of transform_color, of either program, on inputs    *)
(* drawn from small sets of channel values.                                *)
(***************************************************************************)
ChannelValues == {0, 21, 50, 100, 200, 255}
AlphaChannelValues == {50, 200, 255}
AlphaValues == {0, 128, 255}
TargetValues == {0, 45, 255}

GrayPixels == {<<v>> : v \in ChannelValues}
RGBPixels  == [1..3 -> ChannelValues]
RGBAPixels == {p \o <<a>> : p \in [1..3 -> AlphaChannelValues], a \in AlphaValues}
Pixels     == GrayPixels \cup RGBPixels \cup RGBAPixels
TargetColors == [1..3 -> TargetValues]

PixelIdle == pixel = None /\ new_pixel = None /\ variant = None

ImageIdle ==
    /\ img = NoImage /\ has_callback = FALSE /\ y = 0
    /\ new_img = NoImage /\ progress_calls = <<>> /\ ret = None

BatchIdle ==
    /\ processed_images_state = <<>> /\ current_color = None /\ color = None
    /\ uploaded_files = <<>> /\ idx = 0 /\ processed_images = <<>>
    /\ rendered = <<>> /\ zip_file = NoZip /\ errors = <<>> /\ pc = None
    /\ outcomes = <<>> /\ transforms = <<>> /\ cleared = NotCleared /\ runs = 0

InitPixel ==
    /\ pixel \in Pixels
    /\ target_color \in TargetColors
    /\ new_pixel = None
    /\ variant = "none"
    /\ ImageIdle
    /\ BatchIdle

CallTransformColor ==
    /\ variant = "none"
    /\ new_pixel' = TransformColor(pixel, target_color)
    /\ variant' = "batch"
    /\ UNCHANGED <<pixel, target_color, imageVars, batchVars>>

CallTransformColorSingle ==
    /\ variant = "none"
    /\ new_pixel' = TransformColorSingle(pixel, target_color)
    /\ variant' = "single"
    /\ UNCHANGED <<pixel, target_color, imageVars, batchVars>>

NextPixel == CallTransformColor \/ CallTransformColorSingle

SpecPixel == InitPixel /\ [][NextPixel]_vars

IsWhite(p) == p[1] = 255 /\ p[2] = 255 /\ p[3] = 255
IsColorPixel(p) == Len(p) \in {3, 4}
ChannelSum(p) == p[1] + p[2] + p[3]

\* round(n / d) of the exact quotient, as Python rounds: half to even.
RoundQuotient(n, d) ==
    LET q == n \div d
        r == n % d
    IN  IF 2 * r > d \/ (2 * r = d /\ q % 2 = 1) THEN q + 1 ELSE q

\* C1 as stated: every output colour channel of a non-white RGB or RGBA pixel is
\* round(targetChannel * brightness), brightness = (r+g+b)/(3*255).
C1_RoundedScaling ==
    (variant # "none" /\ IsColorPixel(pixel) /\ ~IsWhite(pixel)) =>
        \A c \in 1..3 :
            new_pixel[c] = RoundQuotient(target_color[c] * ChannelSum(pixel), 3 * 255)

\* C1 amended: every output colour channel of a non-white RGB or RGBA pixel is the
\* double product targetChannel * brightness truncated towards zero: the floor of
\* targetChannel*(r+g+b)/765 when that quotient is no integer, and that integer
\* or one less when it is (45 * 221/765 gives 12, not 13); pixel (200,100,50)
\* with target (0,255,0) yields (0,116,0).
C1_TruncatedScaling ==
    (variant # "none" /\ IsColorPixel(pixel) /\ ~IsWhite(pixel)) =>
        /\ \A c \in 1..3 :
            LET n == target_color[c] * ChannelSum(pixel)
                q == n \div (3 * 255)
            IN  IF n % (3 * 255) # 0 THEN new_pixel[c] = q
                ELSE new_pixel[c] \in {q, q - 1} /\ new_pixel[c] >= 0
        /\ (SubSeq(pixel, 1, 3) = <<200, 100, 50>> /\ target_color = <<0, 255, 0>>)
               => SubSeq(new_pixel, 1, 3) = <<0, 116, 0>>
        /\ \A c \in 1..3 : (target_color[c] = 45 /\ ChannelSum(pixel) = 221)
               => new_pixel[c] = 12

C1_Witness ==
    /\ variant = "batch"
    /\ pixel = <<200, 100, 50>>
    /\ target_color = <<0, 255, 0>>
    /\ new_pixel = <<0, 116, 0>>

\* C2: in the batch program a pixel whose colour channels are all 255 is returned
\* unchanged, its alpha included, whatever the target colour.
C2_WhitePreserved ==
    (variant = "batch" /\ IsColorPixel(pixel) /\ IsWhite(pixel)) => new_pixel = pixel

C2_Witness ==
    /\ variant = "batch"
    /\ pixel = <<255, 255, 255, 128>>
    /\ target_color = <<0, 255, 0>>
    /\ new_pixel = <<255, 255, 255, 128>>

(***************************************************************************)
(* Images.  An image is [mode, width, height, px, loadable]: px maps        *)
(* <<x, y>> to the pixel there, and loadable is FALSE for a file whose      *)
(* header parses and whose pixel data does not (PIL reads the data lazily,  *)
(* at the first convert or getpixel, which then raises).  Pixels of mode L  *)
(* and P are 1-tuples, of mode LA 2-tuples.                                 *)
(***************************************************************************)
Coords(w, h) == (0..(w - 1)) \X (0..(h - 1))

Palette == <<(<<0, 0, 0>>), (<<200, 100, 50>>), (<<255, 255, 255>>)>>

\* img.convert('RGBA') and img.convert('RGB') of one pixel
ConvertPixel(mode, p) ==
    CASE mode = "LA" -> <<p[1], p[1], p[1], p[2]>>
      [] mode = "P"  -> Palette[p[1] + 1] \o <<255>>
      [] mode = "L"  -> <<p[1], p[1], p[1]>>
      [] OTHER       -> p

\* streamlit_app.py process_image: the mode the image is normalised to
NormalMode(mode) ==
    IF mode \notin {"RGB", "RGBA"} THEN
        IF mode \in {"P", "LA", "PA"} THEN "RGBA" ELSE "RGB"
    ELSE mode

Convert(im) ==
    [im EXCEPT !.mode = NormalMode(im.mode),
               !.px = [xy \in DOMAIN im.px |-> ConvertPixel(im.mode, im.px[xy])]]

\* Image.new(mode, size): every pixel 0
ImageNew(mode, w, h) ==
    [mode |-> mode, width |-> w, height |-> h, loadable |-> TRUE,
     px |-> [xy \in Coords(w, h) |-> IF mode = "RGBA" THEN <<0, 0, 0, 0>> ELSE <<0, 0, 0>>]]

\* whether the conversion at the top of process_image raises
ConvertRaises(im) == im.mode \notin {"RGB", "RGBA"} /\ ~im.loadable

\* the inner loop over x of row row: new_img with that row written
TransformRow(im, out, target, row) ==
    [out EXCEPT !.px = [xy \in DOMAIN out.px |->
        IF xy[2] = row THEN TransformColor(im.px[xy], target) ELSE out.px[xy]]]

\* whether row row raises: getpixel on unreadable data, or the division by
\* total_pixels = 0 of the progress report
RowRaises(im, cb, row) ==
    \/ im.width > 0 /\ ~im.loadable
    \/ cb /\ row % 10 = 0 /\ im.width * im.height = 0

\* whether progress_callback is called after row row
ProgressReported(cb, row) == cb /\ row % 10 = 0

\* the float (y * width * 100) / total_pixels handed to progress_callback, kept
\* as the fraction it is the correctly rounded value of
ProgressValue(im, row) == [num |-> row * im.width * 100, den |-> im.width * im.height]

\* process_image as a whole: the image returned, or NoImage for None
RECURSIVE RowsFrom(_, _, _, _)
RowsFrom(im, out, target, row) ==
    IF row = im.height THEN out
    ELSE RowsFrom(im, TransformRow(im, out, target, row), target, row + 1)

ProcessImage(im, target, cb) ==
    IF ConvertRaises(im) THEN NoImage
    ELSE IF \E row \in 0..(im.height - 1) : RowRaises(im, cb, row) THEN NoImage
    ELSE LET c == Convert(im)
         IN  RowsFrom(c, ImageNew(c.mode, c.width, c.height), target, 0)

(***************************************************************************)
(* SpecImage: one call of process_image, a row of the outer loop per step. *)
(***************************************************************************)
MaxWidth == 2
MaxHeight == 21

ModePixels(mode) ==
    CASE mode = "RGB"  -> <<(<<200, 100, 50>>), (<<255, 255, 255>>)>>
      [] mode = "RGBA" -> <<(<<200, 100, 50, 128>>), (<<255, 255, 255, 128>>)>>
      [] mode = "L"    -> <<(<<100>>), (<<255>>)>>
      [] mode = "LA"   -> <<(<<100, 128>>), (<<255, 0>>)>>
      [] mode = "P"    -> <<(<<1>>), (<<2>>)>>

\* a checkerboard of the mode's two pixels
TestImage(mode, w, h, ok) ==
    [mode |-> mode, width |-> w, height |-> h, loadable |-> ok,
     px |-> [xy \in Coords(w, h) |-> ModePixels(mode)[((xy[1] + xy[2]) % 2) + 1]]]

Images ==
    {TestImage(mode, w, h, ok) :
        mode \in {"RGB", "RGBA", "L", "LA", "P"},
        w \in 0..MaxWidth, h \in 0..MaxHeight, ok \in BOOLEAN}

InitImage ==
    /\ img \in Images
    /\ target_color \in {<<0, 255, 0>>, <<255, 0, 45>>}
    /\ has_callback \in BOOLEAN
    /\ y = 0
    /\ new_img = NoImage
    /\ progress_calls = <<>>
    /\ ret = "called"
    /\ PixelIdle
    /\ BatchIdle

\* lines 58-68: the conversion, img.size, Image.new
Prepare ==
    /\ ret = "called"
    /\ IF ConvertRaises(img)
       THEN ret' = None /\ UNCHANGED <<img, new_img>>
       ELSE /\ img' = Convert(img)
            /\ new_img' = ImageNew(NormalMode(img.mode), img.width, img.height)
            /\ ret' = "running"
    /\ UNCHANGED <<target_color, has_callback, y, progress_calls,
                   pixel, new_pixel, variant, batchVars>>

\* lines 69-77: one pass of the loop over y
ProcessRow ==
    /\ ret = "running"
    /\ y < img.height
    /\ IF RowRaises(img, has_callback, y)
       THEN ret' = None /\ UNCHANGED <<new_img, progress_calls, y>>
       ELSE /\ new_img' = TransformRow(img, new_img, target_color, y)
            /\ progress_calls' =
                 IF ProgressReported(has_callback, y)
                 THEN Append(progress_calls, ProgressValue(img, y))
                 ELSE progress_calls
            /\ y' = y + 1
            /\ ret' = ret
    /\ UNCHANGED <<img, target_color, has_callback, pixel, new_pixel, variant, batchVars>>

\* line 79: return new_img
ReturnImage ==
    /\ ret = "running"
    /\ y = img.height
    /\ ret' = "image"
    /\ UNCHANGED <<img, target_color, has_callback, y, new_img, progress_calls,
                   pixel, new_pixel, variant, batchVars>>

NextImage == Prepare \/ ProcessRow \/ ReturnImage

SpecImage == InitImage /\ [][NextImage]_vars

\* C7 as stated: a successful process_image with a progress sink, on an image
\* that has pixels, calls the sink from the row loop with percentages in [0,100]
\* that never decrease, the last of them 100.
C7_ProgressEndsAt100 ==
    (ret = "image" /\ has_callback /\ img.width > 0 /\ img.height > 0) =>
        /\ Len(progress_calls) > 0
        /\ \A i \in 1..Len(progress_calls) :
              /\ 0 <= progress_calls[i].num
              /\ progress_calls[i].num <= 100 * progress_calls[i].den
        /\ \A i \in 1..(Len(progress_calls) - 1) :
              progress_calls[i].num * progress_calls[i + 1].den
                  <= progress_calls[i + 1].num * progress_calls[i].den
        /\ progress_calls[Len(progress_calls)].num
              = 100 * progress_calls[Len(progress_calls)].den

\* The part of C7 the code keeps: in [0,100), increasing, first 0, never 100.
ProgressBelow100 ==
    (ret = "image" /\ has_callback /\ img.width > 0 /\ img.height > 0) =>
        /\ Len(progress_calls) = (img.height - 1) \div 10 + 1
        /\ \A i \in 1..Len(progress_calls) :
              /\ progress_calls[i].num = (i - 1) * 10 * img.width * 100
              /\ progress_calls[i].num < 100 * progress_calls[i].den

(***************************************************************************)
(* Spec: main() of streamlit_app.py.  Streamlit runs the script from top   *)
(* to bottom on every interaction; st.session_state outlives the runs.     *)
(* A run is StartRun (the widgets, the colour check), one ProcessFile per  *)
(* uploaded file, BuildZip and EndRun.  An exception that leaves main()    *)
(* ends the run where it is raised (pc = "crashed").                       *)
(***************************************************************************)
MaxRuns == 2
MaxFiles == 3

\* A colour is the picker's string, one character per element.
DefaultColor == <<"#", "F", "F", "0", "0", "0", "0">>
PickerColors == {DefaultColor, <<"#", "0", "0", "f", "f", "2", "d">>}

HexDigits == <<"0", "1", "2", "3", "4", "5", "6", "7", "8", "9",
               "a", "b", "c", "d", "e", "f">>
UpperHexDigits == <<"0", "1", "2", "3", "4", "5", "6", "7", "8", "9",
                    "A", "B", "C", "D", "E", "F">>

\* int(ch, 16) of one character
HexValue(ch) ==
    (CHOOSE i \in 1..16 : HexDigits[i] = ch \/ UpperHexDigits[i] = ch) - 1

\* tuple(int(color[i:i+2], 16) for i in (1, 3, 5))
HexToRGB(c) ==
    [k \in 1..3 |-> 16 * HexValue(c[2 * k]) + HexValue(c[2 * k + 1])]

\* What the uploader can hold: a name and the file's content.  A batch is a
\* sequence of different files; two of them may bear the same name.
FileData == {"A", "B", "notbmp", "truncated"}
UploadableFiles ==
    {[name |-> "a.bmp", data |-> "A"], [name |-> "a.bmp", data |-> "B"],
     [name |-> "b.bmp", data |-> "B"], [name |-> "b.bmp", data |-> "notbmp"],
     [name |-> "a.bmp", data |-> "truncated"]}

\* the sequences of at most n elements of S, none of them twice
NoRepeat(q) == \A i, j \in 1..Len(q) : q[i] = q[j] => i = j

RECURSIVE SeqsUpTo(_, _)
SeqsUpTo(S, n) ==
    IF n = 0 THEN {<<>>}
    ELSE LET shorter == SeqsUpTo(S, n - 1)
             longest == {t \in shorter : Len(t) = n - 1}
         IN  shorter \cup {t \in {Append(q, e) : q \in longest, e \in S} : NoRepeat(t)}

Uploads == SeqsUpTo(UploadableFiles, MaxFiles)

\* Image.open(uploaded_file): the image, or NoImage when PIL raises
ImageOpen(data) ==
    CASE data = "A"         -> TestImage("RGB", 1, 2, TRUE)
      [] data = "B"         -> TestImage("L", 2, 1, TRUE)
      [] data = "truncated" -> TestImage("RGB", 1, 1, FALSE)
      [] OTHER              -> NoImage

\* transformed_img.save(img_byte_arr, format='BMP'): the header fields and the
\* rows bottom-up, each pixel B, G, R(, A)
BMPPixel(p) == IF Len(p) = 4 THEN <<p[3], p[2], p[1], p[4]>> ELSE <<p[3], p[2], p[1]>>

SaveBMP(im) ==
    [magic |-> "BM", width |-> im.width, height |-> im.height,
     bits |-> IF im.mode = "RGBA" THEN 32 ELSE 24,
     rows |-> [r \in 1..im.height |->
                 [x \in 1..im.width |-> BMPPixel(im.px[<<x - 1, im.height - r>>])]]]

\* process_image(original_img, target_color, update_progress) of every file
\* content under every colour, computed once
ProcessedUploads ==
    [d \in FileData, c \in PickerColors |-> ProcessImage(ImageOpen(d), HexToRGB(c), TRUE)]

ColorChanged(picked, stored) == picked # stored

\* the mutant of CacheAfterPick: the cache kept across a colour change
CacheKeptAfterPick(picked, stored, cache) == cache

\* lines 100-102: the cache after the colour check
CacheAfterPick(picked, stored, cache) ==
    IF ColorChanged(picked, stored) THEN <<>> ELSE cache

CacheKey(file, picked) == <<file.name, picked>>

\* the mutant of IsCached: every file taken as new
NeverCached(key, cache) == FALSE

IsCached(key, cache) == key \in DOMAIN cache

\* the mutant of NewEntry: an entry stored before its bytes are there
NewEntryWithoutBytes(original, transformed) ==
    [original |-> original, transformed |-> transformed,
     bytes |-> <<>>, format |-> "BMP"]

\* lines 145-152: the entry stored for a transformed image
NewEntry(original, transformed) ==
    [original |-> original, transformed |-> transformed,
     bytes |-> SaveBMP(transformed), format |-> "BMP"]

\* the mutant of AppendResult: results pushed at the front
PrependResult(list, item) == <<item>> \o list

\* line 157: processed_images.append(...)
AppendResult(list, item) == Append(list, item)

\* f"transformed_{filename}"
TransformedName(filename) == "transformed_" \o filename

\* the mutant of ArchiveMembers: the last result left out
ArchiveMembersButLast(list) ==
    [i \in 1..(Len(list) - 1) |->
        [name |-> TransformedName(list[i][1]), data |-> list[i][2]]]

\* lines 190-192: the members written, in order
ArchiveMembers(list) ==
    [i \in 1..Len(list) |->
        [name |-> TransformedName(list[i][1]), data |-> list[i][2]]]

\* One pass of the loop over uploaded_files (lines 128-179) for `file`, with
\* save_ok telling whether transformed_img.save succeeds: what it does to the
\* cache, and how it ends.
Iteration(file, picked, cache, save_ok) ==
    LET key == CacheKey(file, picked)
    IN  IF IsCached(key, cache) THEN
            [outcome |-> "cached", cache |-> cache, returned |-> FALSE, called |-> FALSE]
        ELSE LET original == ImageOpen(file.data)
             IN  IF original = NoImage THEN
                     [outcome |-> "decode_error", cache |-> cache,
                      returned |-> FALSE, called |-> FALSE]
                 ELSE LET transformed == ProcessedUploads[file.data, picked]
                      IN  IF transformed = NoImage THEN
                              [outcome |-> "transform_failed", cache |-> cache,
                               returned |-> FALSE, called |-> TRUE]
                          ELSE IF ~save_ok THEN
                              [outcome |-> "encode_error", cache |-> cache,
                               returned |-> TRUE, called |-> TRUE]
                          ELSE
                              [outcome |-> "stored",
                               cache |-> (key :> NewEntry(original, transformed)) @@ cache,
                               returned |-> TRUE, called |-> TRUE]

Raised(outcome) == outcome \in {"decode_error", "encode_error"}

NoCalls == [returned |-> 0, stored |-> 0, after_store |-> 0]
Calls(key, log) == IF key \in DOMAIN log THEN log[key] ELSE NoCalls

Init ==
    /\ processed_images_state = <<>>
    /\ current_color = DefaultColor
    /\ color = DefaultColor
    /\ uploaded_files = <<>>
    /\ idx = 1
    /\ processed_images = <<>>
    /\ rendered = <<>>
    /\ zip_file = NoZip
    /\ errors = <<>>
    /\ pc = "idle"
    /\ outcomes = <<>>
    /\ transforms = <<>>
    /\ cleared = NotCleared
    /\ runs = 0
    /\ PixelIdle
    /\ target_color = None
    /\ ImageIdle

\* lines 96-123: the colour picker, the colour check, the uploader
StartRun ==
    /\ pc = "idle"
    /\ runs < MaxRuns
    /\ \E picked \in PickerColors, files \in Uploads :
        /\ color' = picked
        /\ current_color' = picked
        /\ processed_images_state' = CacheAfterPick(picked, current_color, processed_images_state)
        /\ cleared' = [changed |-> ColorChanged(picked, current_color),
                       evicted |-> DOMAIN processed_images_state
                                     \ DOMAIN CacheAfterPick(picked, current_color, processed_images_state)]
        /\ transforms' = IF ColorChanged(picked, current_color) THEN <<>> ELSE transforms
        /\ target_color' = HexToRGB(picked)
        /\ uploaded_files' = files
        /\ pc' = IF files # <<>> THEN "loop" ELSE "done"
    /\ idx' = 1
    /\ processed_images' = <<>>
    /\ rendered' = <<>>
    /\ zip_file' = NoZip
    /\ errors' = <<>>
    /\ outcomes' = <<>>
    /\ runs' = runs + 1
    /\ UNCHANGED <<pixel, new_pixel, variant, imageVars>>

\* lines 128-179: one pass of the loop
ProcessFile ==
    /\ pc = "loop"
    /\ \E save_ok \in BOOLEAN :
        LET file == uploaded_files[idx]
            key  == CacheKey(file, color)
            it   == Iteration(file, color, processed_images_state, save_ok)
            old  == Calls(key, transforms)
        IN  /\ processed_images_state' = it.cache
            /\ outcomes' = Append(outcomes, it.outcome)
            /\ transforms' =
                 IF it.called
                 THEN (key :> [returned |-> old.returned + (IF it.returned THEN 1 ELSE 0),
                               stored   |-> old.stored + (IF it.outcome = "stored" THEN 1 ELSE 0),
                               after_store |-> old.after_store + (IF old.stored > 0 THEN 1 ELSE 0)])
                      @@ transforms
                 ELSE transforms
            /\ errors' = IF it.outcome = "transform_failed"
                         THEN Append(errors, "Error processing image")
                         ELSE errors
            /\ IF Raised(it.outcome)
               THEN /\ pc' = "crashed"
                    /\ UNCHANGED <<idx, processed_images, rendered>>
               ELSE /\ IF IsCached(key, it.cache)
                       THEN LET img_data == it.cache[key]
                            IN  /\ processed_images' = AppendResult(processed_images,
                                       <<file.name, img_data.bytes, img_data.format>>)
                                /\ rendered' = Append(rendered,
                                       [idx |-> idx, label |-> file.name,
                                        data |-> img_data.bytes,
                                        file_name |-> TransformedName(file.name)])
                       ELSE UNCHANGED <<processed_images, rendered>>
                    /\ idx' = idx + 1
                    /\ pc' = IF idx = Len(uploaded_files) THEN "zip" ELSE "loop"
    /\ UNCHANGED <<current_color, color, uploaded_files, zip_file, cleared, runs,
                   target_color, pixel, new_pixel, variant, imageVars>>

\* lines 181-200: the archive, when there is more than one result
BuildZip ==
    /\ pc = "zip"
    /\ zip_file' = IF Len(processed_images) > 1
                   THEN [built |-> TRUE, members |-> ArchiveMembers(processed_images)]
                   ELSE NoZip
    /\ pc' = "done"
    /\ UNCHANGED <<processed_images_state, current_color, color, uploaded_files, idx,
                   processed_images, rendered, errors, outcomes, transforms, cleared,
                   runs, target_color, pixel, new_pixel, variant, imageVars>>

\* main() returns, or the exception leaves it: its locals are gone, the session
\* state stays
EndRun ==
    /\ pc \in {"done", "crashed"}
    /\ pc' = "idle"
    /\ color' = current_color
    /\ target_color' = None
    /\ uploaded_files' = <<>>
    /\ idx' = 1
    /\ processed_images' = <<>>
    /\ rendered' = <<>>
    /\ zip_file' = NoZip
    /\ errors' = <<>>
    /\ outcomes' = <<>>
    /\ cleared' = NotCleared
    /\ UNCHANGED <<processed_images_state, current_color, transforms, runs,
                   pixel, new_pixel, variant, imageVars>>

Next == StartRun \/ ProcessFile \/ BuildZip \/ EndRun

Spec == Init /\ [][Next]_vars

Served(o) == o \in {"cached", "stored"}
Failed(o) == o \in {"decode_error", "transform_failed", "encode_error"}
RunOver == pc \in {"done", "crashed"}
Running == pc \in {"loop", "zip", "done", "crashed"}

\* the indices of the files of this run that produced a result, in loop order
ServedIndices ==
    LET IsServed(i) == Served(outcomes[i])
    IN  SelectSeq([i \in 1..Len(outcomes) |-> i], IsServed)

DistinctNames(files) ==
    \A i, j \in 1..Len(files) : files[i].name = files[j].name => i = j

\* C3: a run whose colour differs from the stored one empties the cache before
\* its first lookup, none of the evicted keys is present afterwards, and at every
\* lookup every entry is keyed by the colour in force.
C3_CacheKeyedByActiveColor ==
    /\ \A k \in DOMAIN processed_images_state : k[2] = current_color
    /\ Running => color = current_color
    /\ (Running /\ cleared.changed) =>
          /\ \A k \in cleared.evicted : k \notin DOMAIN processed_images_state
          /\ \A k \in DOMAIN processed_images_state : Calls(k, transforms).stored = 1
          /\ Len(outcomes) = 0 => processed_images_state = <<>>

C3_Witness ==
    /\ pc = "done"
    /\ cleared.changed
    /\ cleared.evicted # {}
    /\ DOMAIN processed_images_state # {}

\* C4 as stated: once stored, an entry is reused without another process_image
\* call, and per key at most one process_image call returns an image between two
\* colour changes.
C4_AtMostOneSuccessfulTransform ==
    \A k \in DOMAIN transforms :
        /\ transforms[k].after_store = 0
        /\ transforms[k].returned <= 1

\* C4 amended: once stored, an entry is reused without another process_image call,
\* and per key at most one process_image call has its result stored between two
\* colour changes (a call whose image then fails to encode stores nothing and is
\* made again on the next run); what is served is the stored entry.
C4_StoredOnceThenReused ==
    /\ \A k \in DOMAIN transforms :
        /\ transforms[k].after_store = 0
        /\ transforms[k].stored <= 1
        /\ transforms[k].stored = 1 <=> k \in DOMAIN processed_images_state
    /\ \A k \in DOMAIN processed_images_state : Calls(k, transforms).stored = 1
    /\ \A i \in 1..Len(rendered) :
        /\ <<rendered[i].label, color>> \in DOMAIN processed_images_state
        /\ rendered[i].data = processed_images_state[<<rendered[i].label, color>>].bytes

C4_Witness ==
    /\ runs = 2
    /\ Len(outcomes) > 0
    /\ outcomes[1] = "cached"
    /\ transforms[<<uploaded_files[1].name, color>>].returned = 1
    /\ transforms[<<uploaded_files[1].name, color>>].stored = 1

\* C5 as stated: a failure on one file is local to it; when the run is over every
\* file of the batch has been through the loop.
C5_FailureIsLocal ==
    RunOver => Len(outcomes) = Len(uploaded_files)

\* C6: the cache changes only by one complete entry for the file at hand, written
\* after its transform and its encoding succeeded; an item that fails leaves the
\* cache as it was, with no entry for its key.
C6_EntryWrittenOnceAfterSuccess ==
    [][Len(outcomes') = Len(outcomes) + 1 =>
        LET o    == outcomes'[Len(outcomes')]
            file == uploaded_files[idx]
            k    == <<file.name, color>>
            done == ProcessedUploads[file.data, color]
        IN  /\ o # "stored" => processed_images_state' = processed_images_state
            /\ Failed(o) => k \notin DOMAIN processed_images_state'
            /\ o = "stored" =>
                 /\ k \notin DOMAIN processed_images_state
                 /\ DOMAIN processed_images_state' = DOMAIN processed_images_state \cup {k}
                 /\ \A j \in DOMAIN processed_images_state :
                       processed_images_state'[j] = processed_images_state[j]
                 /\ done # NoImage
                 /\ processed_images_state'[k] =
                       [original |-> ImageOpen(file.data), transformed |-> done,
                        bytes |-> SaveBMP(done), format |-> "BMP"]
    ]_vars

C6_Witness ==
    /\ Len(outcomes) = 3
    /\ outcomes[1] = "transform_failed"
    /\ outcomes[2] = "stored"
    /\ outcomes[3] = "encode_error"
    /\ DOMAIN processed_images_state = {<<uploaded_files[2].name, color>>}

\* C8: files go through the loop in the order submitted, results are appended in
\* that order, and the archive's members are written in it, whether a file is
\* served from the cache, transformed afresh or fails.
C8_SubmissionOrderKept ==
    /\ pc = "loop" => Len(outcomes) = idx - 1
    /\ pc \in {"zip", "done"} => Len(outcomes) = Len(uploaded_files)
    /\ Len(processed_images) = Len(ServedIndices)
    /\ Len(rendered) = Len(ServedIndices)
    /\ \A j \in 1..Len(ServedIndices) :
        /\ processed_images[j][1] = uploaded_files[ServedIndices[j]].name
        /\ rendered[j].idx = ServedIndices[j]
    /\ zip_file.built =>
        /\ Len(zip_file.members) = Len(ServedIndices)
        /\ \A j \in 1..Len(ServedIndices) :
              zip_file.members[j].name
                  = "transformed_" \o uploaded_files[ServedIndices[j]].name

C8_Witness ==
    /\ runs = 2
    /\ pc = "done"
    /\ zip_file.built
    /\ outcomes = <<"cached", "transform_failed", "stored">>
    /\ uploaded_files[1].name # uploaded_files[3].name

\* C9: N > 1 results with pairwise distinct filenames give an archive of exactly
\* N members, one per result, named "transformed_" + filename and holding the
\* bytes of that file's cache entry; no member is added twice.
C9_ArchiveComplete ==
    LET n == Len(processed_images)
        Names == {processed_images[i][1] : i \in 1..n}
    IN  (pc = "done" /\ n > 1 /\ Cardinality(Names) = n) =>
            /\ zip_file.built
            /\ Len(zip_file.members) = n
            /\ \A i \in 1..n :
                /\ zip_file.members[i].name = "transformed_" \o processed_images[i][1]
                /\ zip_file.members[i].data
                     = processed_images_state[<<processed_images[i][1], color>>].bytes
            /\ \A f \in Names :
                Cardinality({i \in 1..Len(zip_file.members) :
                                zip_file.members[i].name = "transformed_" \o f}) = 1

C9_Witness ==
    /\ pc = "done"
    /\ zip_file.built
    /\ Len(zip_file.members) = 2
    /\ zip_file.members[1].name = "transformed_a.bmp"
    /\ zip_file.members[2].name = "transformed_b.bmp"

\* C10 as stated: under an unchanged colour the bytes served for an uploaded file
\* are the encoded transform of the content uploaded under that name in this run
\* (stated for batches whose filenames are pairwise distinct).
C10_ServedBytesMatchUpload ==
    DistinctNames(uploaded_files) =>
        \A i \in 1..Len(rendered) :
            LET file == uploaded_files[rendered[i].idx]
            IN  rendered[i].data = SaveBMP(ProcessedUploads[file.data, color])

=============================================================================
